---- MODULE Spec2Model ----
(***************************************************************************)
(* A model of app/static/JS/script.js: the streamed-TTS fragment assembler *)
(* (initMurfStreamPlayback, pushMurfAudioChunk, finalizeMurfStream), the   *)
(* transcript reconciler inside streamWS.onmessage, the autoplay unlock    *)
(* gate and the single-shot playback retry chain (unlockAudioIfNeeded,     *)
(* playAgentAudio, retryPlay), and the streaming session (toggleMic).      *)
(*                                                                         *)
(* Text is a sequence of code points, audio a sequence of bytes, base64    *)
(* text a sequence of symbols (0..63 the alphabet, PAD the '=' sign,       *)
(* BAD_SYM a character outside the alphabet).                              *)
(***************************************************************************)
EXTENDS Integers, Sequences, FiniteSets, TLC

\* ------------------------------------------------------------ constants
\* The fixed container header size of script.js:77,99,104.
WAV_HEADER_LEN == 44
\* ChunkSize = 36 + Subchunk2Size, script.js:106.
RIFF_CHUNK_EXTRA == 36
\* retryPlay: "attempt > 3", script.js:189.
MAX_RETRY == 3
\* retryPlay: the delay of attempt k is 250 * k ms, script.js:197.
RETRY_BASE_MS == 250
\* Code points of the characters the text alphabet is drawn from.
CH_a == 97
CH_b == 98
CH_SPACE == 32
CH_TAB == 9
CH_ZWSP == 8203
CH_BOM == 65279
\* Base64 symbols that are no alphabet character: '=' and an illegal one.
PAD == 64
BAD_SYM == 65

\* --------------------------------------------------------------- bounds
\* Valid tts_chunk messages delivered in one run.
MaxChunks == 2
\* tts_done messages handled in one run.
MaxTurns == 2
\* Longest input string of normalizeTranscript.
MaxLen == 5
\* turn_end messages handled in one run.
MaxTurnEnds == 1
\* Streaming sessions started in one run.
MaxSessions == 2
\* playAgentAudio requests issued in one run.
MaxRequests == 2
\* Audio frames one session's processor sends in one run.
MaxFrames == 1
\* URLs a playback request may name.
NumUrls == 2
\* Calls of unlockAudioIfNeeded counted in one run.
MaxUnlocks == 2

\* -------------------------------------------------------------- helpers
Range(s) == {s[i] : i \in 1..Len(s)}

RECURSIVE Concat(_)
\* fullAudio.set(arr, offset) over the chunks in order, script.js:91-97.
Concat(chunks) ==
  IF chunks = <<>> THEN <<>> ELSE Head(chunks) \o Concat(Tail(chunks))

\* bytes.subarray(k), script.js:78.
Subarray(bytes, k) == SubSeq(bytes, k + 1, Len(bytes))

\* The four bytes 'RIFF' (52 49 46 46) at the start, script.js:77,101.
StartsWithRIFF(bytes) ==
  /\ Len(bytes) >= 4
  /\ bytes[1] = 82 /\ bytes[2] = 73 /\ bytes[3] = 70 /\ bytes[4] = 70

\* The four bytes DataView.setUint32(_, v, true) writes, least significant
\* byte first, for 0 <= v < 2^31 (a buffer is shorter than that, and the
\* sizes written are lengths of buffers).
LE32(v) ==
  << v % 256, (v \div 256) % 256, (v \div 65536) % 256, (v \div 16777216) % 256 >>

\* view.setUint32(off, v, true) on a buffer (off is 0-based).
SetUint32LE(buf, off, v) ==
  [i \in 1..Len(buf) |->
     IF i > off /\ i <= off + 4 THEN LE32(v)[i - off] ELSE buf[i]]

\* view.getUint32(off, true): the reader's side of the same field.
GetUint32LE(buf, off) ==
  buf[off + 1] + 256 * buf[off + 2] + 65536 * buf[off + 3] + 16777216 * buf[off + 4]

\* ---------------------------------------------------------------- base64
\* What atob throws (InvalidCharacterError).
AtobThrows == << -1 >>

\* atob (forgiving-base64 decode): strip one or two trailing '=' when the
\* length is a multiple of 4, fail on a length of 1 modulo 4 or on a symbol
\* outside the alphabet, then 6 bits a symbol, the leftover bits dropped.
Atob(s) ==
  LET n0  == Len(s)
      pad == IF n0 > 0 /\ n0 % 4 = 0 /\ s[n0] = PAD
             THEN (IF s[n0 - 1] = PAD THEN 2 ELSE 1)
             ELSE 0
      d   == SubSeq(s, 1, n0 - pad)
      n   == Len(d)
      sx(i) == IF i <= n THEN d[i] ELSE 0
  IN  IF n % 4 = 1 \/ (\E i \in 1..n : d[i] > 63)
      THEN AtobThrows
      ELSE [j \in 1..((n * 6) \div 8) |->
              LET g == (j - 1) \div 3
                  p == (j - 1) % 3
              IN  CASE p = 0 -> sx(4*g + 1) * 4 + sx(4*g + 2) \div 16
                    [] p = 1 -> (sx(4*g + 2) % 16) * 16 + sx(4*g + 3) \div 4
                    [] OTHER -> (sx(4*g + 3) % 4) * 64 + sx(4*g + 4)]

\* The sender's encoding of a fragment into the audio_b64 field.
B64Encode(bytes) ==
  LET n == Len(bytes)
      by(i) == IF i <= n THEN bytes[i] ELSE 0
  IN  [i \in 1..(4 * ((n + 2) \div 3)) |->
         LET g == (i - 1) \div 4
             q == (i - 1) % 4
         IN  CASE q = 0 -> by(3*g + 1) \div 4
               [] q = 1 -> (by(3*g + 1) % 4) * 16 + by(3*g + 2) \div 16
               [] q = 2 -> IF 3*g + 2 > n THEN PAD
                           ELSE (by(3*g + 2) % 16) * 4 + by(3*g + 3) \div 64
               [] OTHER -> IF 3*g + 3 > n THEN PAD ELSE by(3*g + 3) % 64]

\* ------------------------------------------------------------------ text
\* What \s matches and what trim() strips: WhiteSpace and LineTerminator of
\* ECMAScript, U+FEFF among them; U+200B..U+200D are not white space.
IsWhiteSpace(c) ==
  \/ c \in {9, 10, 11, 12, 13, 32, 160, 5760, 8232, 8233, 8239, 8287, 12288, 65279}
  \/ (c >= 8192 /\ c <= 8202)

\* [\u200B-\u200D\uFEFF], script.js:576.
IsZeroWidth(c) == (c >= 8203 /\ c <= 8205) \/ c = 65279

RECURSIVE SkipWhiteSpace(_)
SkipWhiteSpace(t) ==
  IF t # <<>> /\ IsWhiteSpace(Head(t)) THEN SkipWhiteSpace(Tail(t)) ELSE t

RECURSIVE CollapseWhiteSpace(_)
\* t.replace(/\s+/g, ' ')
CollapseWhiteSpace(t) ==
  IF t = <<>> THEN <<>>
  ELSE IF IsWhiteSpace(Head(t))
       THEN <<32>> \o CollapseWhiteSpace(SkipWhiteSpace(Tail(t)))
       ELSE <<Head(t)>> \o CollapseWhiteSpace(Tail(t))

\* t.replace(/[\u200B-\u200D\uFEFF]/g, '')
StripZeroWidth(t) == SelectSeq(t, LAMBDA c : ~IsZeroWidth(c))

RECURSIVE TrimEnd(_)
TrimEnd(t) ==
  IF t # <<>> /\ IsWhiteSpace(t[Len(t)]) THEN TrimEnd(SubSeq(t, 1, Len(t) - 1)) ELSE t

\* String.prototype.trim
Trim(t) == TrimEnd(SkipWhiteSpace(t))

\* normalizeTranscript, script.js:575-577.
normalizeTranscript(t) == Trim(StripZeroWidth(CollapseWhiteSpace(t)))


\* ------------------------------------------------------------- sentinels
\* A field a JSON object does not carry (undefined).
Absent == << -2 >>
\* JavaScript's null where a text is expected.
Null == << -3 >>
\* A value that is a non-empty string (what "x ? a : b" and "x || b" test).
Truthy(t) == t # Absent /\ t # Null /\ t # <<>>

\* ------------------------------------------------------- inbound messages
\* A 44-byte RIFF/WAVE header announcing n bytes of data.
WavHeader(n) ==
  <<82, 73, 70, 70>> \o LE32(RIFF_CHUNK_EXTRA + n) \o <<87, 65, 86, 69>>
    \o <<102, 109, 116, 32>> \o LE32(16)
    \o <<1, 0, 1, 0>> \o LE32(44100) \o LE32(88200) \o <<2, 0, 16, 0>>
    \o <<100, 97, 116, 97>> \o LE32(n)

\* The fragments a sender may put into tts_chunk messages: a header with two
\* bytes of audio, a bare header (exactly 44 bytes), 40 bytes of audio
\* without a header, and a 5-byte fragment that starts with 'RIFF' (the
\* start of a header cut short).
FragWav == WavHeader(0) \o <<1, 2>>
FragHeaderOnly == WavHeader(0)
FragPcm == [i \in 1..40 |-> 3]
FragShortRiff == <<82, 73, 70, 70, 5>>
Fragments == {FragWav, FragHeaderOnly, FragPcm, FragShortRiff}

\* The text of a message that is a JSON object, shortened to its braces: it
\* holds no white space and no zero-width character.
JsonText == <<123, 125>>

\* JSON.parse(event.data) together with event.data itself: type is the
\* object's "type" ("text" for a message that is no JSON object), the other
\* fields are the object's, text is the message as received.
Message(type, b64, transcript, llm, text) ==
  [type |-> type, audio_b64 |-> b64, transcript |-> transcript,
   llm_response |-> llm, text |-> text]

TtsChunk(b64) == Message("tts_chunk", b64, Absent, Absent, JsonText)
TtsDone == Message("tts_done", Absent, Absent, Absent, JsonText)
TurnEnd(transcript, llm) == Message("turn_end", Absent, transcript, llm, JsonText)
OtherJson == Message("other", Absent, Absent, Absent, JsonText)
PlainText(t) == Message("text", Absent, Absent, Absent, t)

\* The well-formed TTS stream: tts_chunk messages whose payload is base64,
\* and tts_done.
ValidChunkMessages == {TtsChunk(B64Encode(f)) : f \in Fragments}
MurfMessages == ValidChunkMessages \cup {TtsDone}
\* A tts_chunk whose payload atob rejects, and one without audio_b64.
BadChunkMessages == {TtsChunk(<<BAD_SYM>>), TtsChunk(Absent)}

\* Partial transcripts and turn boundaries.
PartialTexts ==
  { <<CH_a>>, <<CH_SPACE, CH_a, CH_TAB, CH_SPACE, CH_b>>, <<CH_SPACE>>, <<CH_ZWSP>> }
Transcripts == {Absent, <<CH_b, CH_SPACE, CH_SPACE, CH_a>>, <<CH_TAB>>}
Responses == {Absent, <<CH_SPACE, CH_b, CH_SPACE>>, <<CH_SPACE>>}
TranscriptMessages ==
  {PlainText(t) : t \in PartialTexts}
    \cup {TurnEnd(t, r) : t \in Transcripts, r \in Responses}
    \cup {OtherJson} \cup BadChunkMessages

\* ------------------------------------------------------------------ state
VARIABLES
  \* streamed-TTS assembler, script.js:49-53
  murfAudioCtx,     \* 0 (null) or an index into audioCtxs
  murfAudioChunks,  \* the buffered fragments, a sequence of byte sequences
  murfPlaying,
  murfFirstChunk,
  murfSourceNode,   \* 0 (null) or an index into murfSources
  audioCtxs,        \* the AudioContexts made at script.js:57: "running" | "closed"
  murfSources,      \* the buffer sources made at script.js:112, each with its
                    \* buffer (and, as history, the fragments it was built from)
  murfTurns,        \* one record for each tts_done handled: the number of
                    \* fragments of its turn, the decodeAudioData call it made
  turnFrags,        \* history: the payloads of the tts_chunk messages since the last tts_done
  chunkCount,       \* history: valid tts_chunk messages handled
  chunkSessions,    \* history: the session each chunk of murfAudioChunks came from
  \* page
  llmStatus,        \* llmStatus.textContent
  chat,             \* the rows of chatMessages
  settingsOpen,     \* the settings modal, opened by requireKeysOrPrompt
  \* streaming session, script.js:492-495 and the closures of toggleMic
  sessions,         \* one record for each toggleMic call that started a session
  streamWS,         \* 0 (null) or the session whose socket it is
  streamMedia,      \* 0 (null) or the session whose MediaStream it is
  streaming,
  isMicRecording,   \* setMicState
  turnEnds,         \* history: turn_end messages handled
  lastEnd,          \* history: the last turn_end handled and what came before it
  \* autoplay unlock gate and single-shot playback, script.js:134-135,159-199
  audioUnlocked,
  pendingAutoPlayUrl, \* 0 (null) or a URL
  agentAudio,       \* the audio element: src, onloadeddata, load generation
  playReqs,         \* one record for each playAgentAudio call that got to play
  probes,           \* the silent-buffer contexts unlockAudioIfNeeded made
  played,           \* history: the src of each play() that was fulfilled
  reqCount,         \* history: playAgentAudio calls made by the page
  deferred,         \* history: the URLs of the calls made while the gate was locked
  unlockCalls,      \* history: calls of unlockAudioIfNeeded (up to MaxUnlocks)
  \* normalizeTranscript applied to a text, and again to the result
  nzInput,
  nzOutput

murfVars == <<murfAudioCtx, murfAudioChunks, murfPlaying, murfFirstChunk,
              murfSourceNode, audioCtxs, murfSources, murfTurns, turnFrags,
              chunkCount, chunkSessions>>
pageVars == <<llmStatus, chat, settingsOpen>>
micVars == <<sessions, streamWS, streamMedia, streaming, isMicRecording, turnEnds,
             lastEnd>>
nzVars == <<nzInput, nzOutput>>
gateVars == <<audioUnlocked, pendingAutoPlayUrl, agentAudio, playReqs, probes,
              played, reqCount, deferred, unlockCalls>>
vars == <<murfVars, pageVars, micVars, gateVars, nzVars>>

\* llmStatus.textContent: a fixed message, or one built from a text.
Status(kind) == [kind |-> kind, text |-> <<>>]
StatusText(kind, t) == [kind |-> kind, text |-> t]

\* No turn_end yet.
NoEnd ==
  [s |-> 0, last |-> Absent, lastNonWs |-> Absent, foreign |-> FALSE,
   transcript |-> Absent, llm |-> Absent, hadLiveRow |-> FALSE, row |-> 0]

\* The page after DOMContentLoaded, but for nzInput.
InitPage ==
  /\ murfAudioCtx = 0
  /\ murfAudioChunks = <<>>
  /\ murfPlaying = FALSE
  /\ murfFirstChunk = TRUE
  /\ murfSourceNode = 0
  /\ audioCtxs = <<>>
  /\ murfSources = <<>>
  /\ murfTurns = <<>>
  /\ turnFrags = <<>>
  /\ chunkCount = 0
  /\ chunkSessions = <<>>
  /\ llmStatus = Status("")
  /\ chat = <<>>
  /\ settingsOpen = FALSE
  /\ sessions = <<>>
  /\ streamWS = 0
  /\ streamMedia = 0
  /\ streaming = FALSE
  /\ isMicRecording = FALSE
  /\ turnEnds = 0
  /\ audioUnlocked = FALSE
  /\ pendingAutoPlayUrl = 0
  /\ agentAudio = [src |-> 0, handler |-> 0, loaded |-> FALSE, gen |-> 0]
  /\ playReqs = <<>>
  /\ probes = <<>>
  /\ played = <<>>
  /\ reqCount = 0
  /\ deferred = <<>>
  /\ unlockCalls = 0
  /\ lastEnd = NoEnd
  /\ nzOutput = <<>>

Init == InitPage /\ nzInput = <<>>


\* --------------------------------------------- streamed-TTS assembler
\* The assembler's variables as one value, for the functions below.
MurfState ==
  [ctx |-> murfAudioCtx, chunks |-> murfAudioChunks, playing |-> murfPlaying,
   first |-> murfFirstChunk, node |-> murfSourceNode, ctxs |-> audioCtxs,
   srcs |-> murfSources, status |-> llmStatus]

SetMurf(m) ==
  /\ murfAudioCtx' = m.ctx
  /\ murfAudioChunks' = m.chunks
  /\ murfPlaying' = m.playing
  /\ murfFirstChunk' = m.first
  /\ murfSourceNode' = m.node
  /\ audioCtxs' = m.ctxs
  /\ murfSources' = m.srcs

\* A source that plays no more (or a decode that is over) holds its buffer
\* no longer: the record keeps the outcome and drops the bytes.
Released(rec, state) == [rec EXCEPT !.state = state, !.frags = <<>>, !.buf = <<>>]

\* murfSourceNode.onended = null; murfSourceNode.stop(0), script.js:63.
StopSource(srcs, node) ==
  IF node = 0 THEN srcs
  ELSE [srcs EXCEPT ![node] = Released([@ EXCEPT !.onended = FALSE],
                                       IF @.state = "playing" THEN "stopped" ELSE @.state)]

\* initMurfStreamPlayback, script.js:55-67.
initMurfStreamPlayback(m) ==
  LET ctxs1 == IF m.ctx = 0 THEN Append(m.ctxs, "running") ELSE m.ctxs
  IN  [m EXCEPT !.ctx = IF m.ctx = 0 THEN Len(ctxs1) ELSE m.ctx,
                !.ctxs = ctxs1,
                !.chunks = <<>>,
                !.playing = TRUE,
                !.first = TRUE,
                !.srcs = StopSource(m.srcs, m.node),
                !.node = 0,
                !.status = Status("Buffering Murf audio")]

\* A mutant of beginIfIdle: every tts_chunk starts a new accumulation.
beginAlways(m) == initMurfStreamPlayback(m)

\* "if (!murfPlaying) initMurfStreamPlayback();", script.js:528.
beginIfIdle(m) == IF ~m.playing THEN initMurfStreamPlayback(m) ELSE m

\* A mutant of pushMurfAudioChunk: the header of a first fragment is
\* stripped too.
pushStripAlways(m, b64) ==
  LET bytes == Atob(b64)
  IN  [m EXCEPT !.chunks =
                  IF Len(bytes) >= WAV_HEADER_LEN /\ StartsWithRIFF(bytes)
                  THEN Append(m.chunks, Subarray(bytes, WAV_HEADER_LEN))
                  ELSE Append(m.chunks, bytes),
                !.first = FALSE]

\* pushMurfAudioChunk, script.js:69-84 (for a payload atob accepts).
pushMurfAudioChunk(m, b64) ==
  LET bytes == Atob(b64)
  IN  [m EXCEPT !.chunks =
                  IF ~m.first /\ Len(bytes) >= WAV_HEADER_LEN /\ StartsWithRIFF(bytes)
                  THEN Append(m.chunks, Subarray(bytes, WAV_HEADER_LEN))
                  ELSE Append(m.chunks, bytes),
                !.first = FALSE]

\* A mutant of FixRiffSizes: the data size counts the header too.
FixRiffSizesWholeLength(chunks, fullAudio) ==
  IF Len(chunks) > 0 /\ Len(chunks[1]) >= WAV_HEADER_LEN /\ StartsWithRIFF(chunks[1])
  THEN SetUint32LE(SetUint32LE(fullAudio, 4, RIFF_CHUNK_EXTRA + Len(fullAudio)),
                   40, Len(fullAudio))
  ELSE fullAudio

\* The size repair of finalizeMurfStream, script.js:98-109.
FixRiffSizes(chunks, fullAudio) ==
  IF Len(chunks) > 0 /\ Len(chunks[1]) >= WAV_HEADER_LEN /\ StartsWithRIFF(chunks[1])
  THEN LET dataSize == Len(fullAudio) - WAV_HEADER_LEN
       IN  SetUint32LE(SetUint32LE(fullAudio, 4, RIFF_CHUNK_EXTRA + dataSize),
                       40, dataSize)
  ELSE fullAudio

\* The buffer finalizeMurfStream hands to decodeAudioData, script.js:90-111.
FullAudio(chunks) == FixRiffSizes(chunks, Concat(chunks))

\* finalizeMurfStream, script.js:86-131, up to the decodeAudioData call: the
\* turn's record is "noop" after the early return, "pending" while the
\* decode is outstanding.
finalizeMurfStream(m) ==
  [m   |-> [m EXCEPT !.playing = FALSE],
   turn |-> IF m.ctx = 0 \/ Len(m.chunks) = 0
            THEN [n |-> Len(turnFrags), frags |-> <<>>, buf |-> <<>>, ctx |-> 0,
                  state |-> "noop"]
            ELSE [n |-> Len(turnFrags), frags |-> turnFrags,
                  buf |-> FullAudio(m.chunks), ctx |-> m.ctx, state |-> "pending"]]

\* --------------------------------------------------- chat and transcript
\* '[Unrecognized]' and '[No response]', script.js:388.
Placeholder(role) ==
  IF role = "user"
  THEN <<91, 85, 110, 114, 101, 99, 111, 103, 110, 105, 122, 101, 100, 93>>
  ELSE <<91, 78, 111, 32, 114, 101, 115, 112, 111, 110, 115, 101, 93>>

\* A mutant of addMsg: the text is shown as it came.
addMsgUntrimmed(role, text) ==
  [role |-> role,
   text |-> IF Truthy(text) /\ Trim(text) # <<>> THEN text ELSE Placeholder(role),
   final |-> FALSE]

\* addMsg, script.js:381-410: the row it appends.
addMsg(role, text) ==
  [role |-> role,
   text |-> IF Truthy(text) /\ Trim(text) # <<>> THEN Trim(text) ELSE Placeholder(role),
   final |-> FALSE]

\* History: what the current utterance has received on the raw-text path:
\* the last plain-text message and the last one that is not only white space,
\* or that a message that is a JSON object got there.
Heard(h, raw) ==
  IF h.foreign \/ raw.type # "text"
  THEN [last |-> Absent, lastNonWs |-> Absent, foreign |-> TRUE]
  ELSE [h EXCEPT !.last = raw.text,
                 !.lastNonWs = IF Trim(raw.text) # <<>> THEN raw.text ELSE @]

\* A mutant of RawHasText: the text is not trimmed before the test.
RawNotEmpty(t) == t # <<>>

\* The test "raw.trim()" of script.js:559.
RawHasText(t) == Trim(t) # <<>>

\* The raw-text path of streamWS.onmessage, script.js:559-570, entered with
\* the status the earlier part of the handler left.
RawPath(s, raw, status) ==
  LET se   == [sessions[s] EXCEPT !.heard = Heard(@, raw)]
      text == normalizeTranscript(raw.text)
  IN  IF RawHasText(raw.text) /\ text # se.lastPartial
      THEN /\ llmStatus' = StatusText("partial", text)
           /\ IF se.liveRow = 0
              THEN /\ chat' = Append(chat, addMsg("user", text))
                   /\ sessions' = [sessions EXCEPT
                                     ![s] = [se EXCEPT !.lastPartial = text,
                                                       !.liveRow = Len(chat) + 1]]
              ELSE /\ chat' = [chat EXCEPT ![se.liveRow].text = text]
                   /\ sessions' = [sessions EXCEPT ![s] = [se EXCEPT !.lastPartial = text]]
      ELSE /\ llmStatus' = status
           /\ chat' = chat
           /\ sessions' = [sessions EXCEPT ![s] = se]

NothingHeard == [last |-> Absent, lastNonWs |-> Absent, foreign |-> FALSE]

\* A mutant of ResetUtterance: the live row and the last partial are kept.
KeepUtterance(se) == se

\* "liveRow = null; lastPartial = '';", script.js:553-554.
ResetUtterance(se) == [se EXCEPT !.liveRow = 0, !.lastPartial = <<>>]

\* The turn_end branch of streamWS.onmessage, script.js:537-557.
OnTurnEnd(s, raw) ==
  LET se == sessions[s]
      finalText == IF Truthy(raw.transcript) THEN normalizeTranscript(raw.transcript)
                   ELSE IF Truthy(se.lastPartial) THEN se.lastPartial ELSE Null
      created == se.liveRow = 0 /\ Truthy(finalText)
      chat1 == IF created THEN Append(chat, addMsg("user", finalText))
               ELSE IF se.liveRow # 0 /\ Truthy(finalText)
                    THEN [chat EXCEPT ![se.liveRow].text = finalText]
                    ELSE chat
      row == IF created THEN Len(chat) + 1 ELSE se.liveRow
      chat2 == IF row # 0 THEN [chat1 EXCEPT ![row].final = TRUE] ELSE chat1
  IN  /\ chat' = IF Truthy(raw.llm_response)
                 THEN Append(chat2, addMsg("agent", raw.llm_response))
                 ELSE chat2
      /\ llmStatus' = IF Truthy(finalText) THEN StatusText("Final: ", finalText)
                      ELSE Status("Turn ended")
      /\ sessions' = [sessions EXCEPT
                        ![s] = [ResetUtterance(se) EXCEPT
                                  !.lastDisplayedFinal = IF Truthy(finalText) THEN finalText
                                                         ELSE <<>>,
                                  !.heard = NothingHeard]]
      /\ turnEnds' = turnEnds + 1
      /\ lastEnd' = [s |-> s, last |-> se.heard.last, lastNonWs |-> se.heard.lastNonWs,
                     foreign |-> se.heard.foreign, transcript |-> raw.transcript,
                     llm |-> raw.llm_response, hadLiveRow |-> se.liveRow # 0,
                     row |-> row]

\* streamWS.onmessage of session s, script.js:521-574, for one message.
OnMessage(s, raw) ==
  /\ sessions[s].ws = "OPEN"
  /\ UNCHANGED <<settingsOpen, streamWS, streamMedia, streaming, isMicRecording,
                 gateVars, nzVars>>
  /\ IF raw.type = "tts_chunk" /\ raw.audio_b64 # Absent
     THEN LET m1 == beginIfIdle(MurfState)
          IN  IF Atob(raw.audio_b64) = AtobThrows
              THEN \* atob throws: caught at script.js:558, on to the raw-text path
                   /\ SetMurf(m1)
                   /\ RawPath(s, raw, m1.status)
                   /\ chunkSessions' = IF murfPlaying THEN chunkSessions ELSE <<>>
                   /\ UNCHANGED <<murfTurns, turnFrags, chunkCount, turnEnds, lastEnd>>
              ELSE /\ chunkCount < MaxChunks
                   /\ SetMurf(pushMurfAudioChunk(m1, raw.audio_b64))
                   /\ llmStatus' = m1.status
                   /\ turnFrags' = Append(turnFrags, Atob(raw.audio_b64))
                   /\ chunkCount' = chunkCount + 1
                   /\ chunkSessions' = IF murfPlaying THEN Append(chunkSessions, s)
                                       ELSE <<s>>
                   /\ UNCHANGED <<murfTurns, chat, sessions, turnEnds, lastEnd>>
     ELSE IF raw.type = "tts_done"
     THEN LET f == finalizeMurfStream(MurfState)
          IN  /\ Len(murfTurns) < MaxTurns
              /\ SetMurf(f.m)
              /\ murfTurns' = Append(murfTurns, f.turn)
              /\ turnFrags' = <<>>
              /\ UNCHANGED <<chunkCount, chunkSessions, llmStatus, chat, sessions,
                             turnEnds, lastEnd>>
     ELSE IF raw.type = "turn_end"
     THEN /\ turnEnds < MaxTurnEnds
          /\ OnTurnEnd(s, raw)
          /\ UNCHANGED murfVars
     ELSE \* no branch returned: the raw-text path
          /\ RawPath(s, raw, llmStatus)
          /\ UNCHANGED <<murfVars, turnEnds, lastEnd>>

\* The success callback of decodeAudioData for turn t, script.js:111-126. It
\* reads murfAudioCtx when it runs: with murfAudioCtx null it throws.
DecodeSuccess(t) ==
  /\ murfTurns[t].state = "pending"
  /\ IF murfAudioCtx = 0
     THEN /\ murfTurns' = [murfTurns EXCEPT ![t] = Released(@, "threw")]
          /\ UNCHANGED <<murfSources, murfSourceNode, llmStatus>>
     ELSE /\ murfTurns' = [murfTurns EXCEPT ![t] = Released(@, "decoded")]
          /\ murfSources' = Append(murfSources,
                                   [turn |-> t, ctx |-> murfAudioCtx,
                                    state |-> "playing", onended |-> TRUE,
                                    frags |-> murfTurns[t].frags,
                                    buf |-> murfTurns[t].buf])
          /\ murfSourceNode' = Len(murfSources) + 1
          /\ llmStatus' = Status("Speaking")
  /\ UNCHANGED <<murfAudioCtx, murfAudioChunks, murfPlaying, murfFirstChunk,
                 audioCtxs, turnFrags, chunkCount, chunkSessions, chat, settingsOpen, micVars, gateVars, nzVars>>

\* The error callback of decodeAudioData for turn t, script.js:127-130.
DecodeError(t) ==
  /\ murfTurns[t].state = "pending"
  /\ murfTurns' = [murfTurns EXCEPT ![t] = Released(@, "failed")]
  /\ llmStatus' = Status("Audio decode error")
  /\ UNCHANGED <<murfAudioCtx, murfAudioChunks, murfPlaying, murfFirstChunk,
                 murfSourceNode, audioCtxs, murfSources, turnFrags, chunkCount, chunkSessions,
                 chat, settingsOpen, micVars, gateVars, nzVars>>

\* Source i plays to its end; its onended handler, script.js:119-125, closes
\* whatever context murfAudioCtx names then, which silences the sources
\* still playing in that context.
SourceEnded(i) ==
  /\ murfSources[i].state = "playing"
  /\ IF murfSources[i].onended
     THEN /\ murfSources' =
               [j \in 1..Len(murfSources) |->
                  IF j = i THEN Released(murfSources[j], "ended")
                  ELSE IF murfAudioCtx # 0 /\ murfSources[j].ctx = murfAudioCtx
                          /\ murfSources[j].state = "playing"
                       THEN Released(murfSources[j], "cut")
                       ELSE murfSources[j]]
          /\ audioCtxs' = IF murfAudioCtx # 0
                          THEN [audioCtxs EXCEPT ![murfAudioCtx] = "closed"]
                          ELSE audioCtxs
          /\ llmStatus' = Status("")
          /\ murfAudioCtx' = 0
          /\ murfSourceNode' = 0
     ELSE /\ murfSources' = [murfSources EXCEPT ![i] = Released(@, "ended")]
          /\ UNCHANGED <<audioCtxs, llmStatus, murfAudioCtx, murfSourceNode>>
  /\ UNCHANGED <<murfAudioChunks, murfPlaying, murfFirstChunk, murfTurns,
                 turnFrags, chunkCount, chunkSessions, chat, settingsOpen, micVars, gateVars, nzVars>>


\* ------------------------------------- unlock gate and playback retries
GateState ==
  [unlocked |-> audioUnlocked, pending |-> pendingAutoPlayUrl, audio |-> agentAudio,
   reqs |-> playReqs, probes |-> probes]

SetGate(g) ==
  /\ audioUnlocked' = g.unlocked
  /\ pendingAutoPlayUrl' = g.pending
  /\ agentAudio' = g.audio
  /\ playReqs' = g.reqs
  /\ probes' = g.probes

\* A mutant of playAgentAudio: a deferred URL is not overwritten.
playAgentAudioKeepFirst(g, url, force) ==
  IF url = 0 THEN g
  ELSE IF ~g.unlocked /\ ~force
  THEN [g EXCEPT !.pending = IF g.pending # 0 THEN g.pending ELSE url]
  ELSE [g EXCEPT
          !.audio = [src |-> url, handler |-> Len(g.reqs) + 1, loaded |-> FALSE,
                     gen |-> g.audio.gen + 1],
          !.reqs = Append(g.reqs, [url |-> url, phase |-> "loading", attempt |-> 0,
                                   plays |-> 0, rejects |-> 0, delay |-> 0,
                                   gen |-> 0])]

\* playAgentAudio, script.js:159-185, up to the assignment of onloadeddata
\* (url 0 is the empty string). The request's closure is a record of
\* playReqs: its phase is "loading" until loadeddata fires.
playAgentAudio(g, url, force) ==
  IF url = 0 THEN g
  ELSE IF ~g.unlocked /\ ~force THEN [g EXCEPT !.pending = url]
  ELSE [g EXCEPT
          !.audio = [src |-> url, handler |-> Len(g.reqs) + 1, loaded |-> FALSE,
                     gen |-> g.audio.gen + 1],
          !.reqs = Append(g.reqs, [url |-> url, phase |-> "loading", attempt |-> 0,
                                   plays |-> 0, rejects |-> 0, delay |-> 0,
                                   gen |-> 0])]

\* A mutant of unlockAudioIfNeeded: the early return is missing.
unlockAlways(g, probeOk) ==
  LET g1 == [g EXCEPT !.unlocked = TRUE,
                      !.probes = IF probeOk THEN Append(g.probes, "running") ELSE g.probes,
                      !.pending = 0]
  IN  IF g.pending # 0 THEN playAgentAudio(g1, g.pending, TRUE) ELSE g1

\* unlockAudioIfNeeded, script.js:136-155; probeOk tells whether the silent
\* buffer was started (script.js:141-147) or the try block threw before.
unlockAudioIfNeeded(g, probeOk) ==
  IF g.unlocked THEN g
  ELSE LET g1 == [g EXCEPT !.unlocked = TRUE,
                           !.probes = IF probeOk THEN Append(g.probes, "running")
                                      ELSE g.probes,
                           !.pending = 0]
       IN  IF g.pending # 0 THEN playAgentAudio(g1, g.pending, TRUE) ELSE g1

\* A mutant of retryPlay: one retry fewer.
retryPlayTwice(r, attempt) ==
  IF attempt > MAX_RETRY - 1
  THEN /\ pendingAutoPlayUrl' = playReqs[r].url
       /\ playReqs' = [playReqs EXCEPT ![r].phase = "exhausted", ![r].rejects = @ + 1]
  ELSE /\ playReqs' = [playReqs EXCEPT ![r].phase = "timer", ![r].attempt = attempt,
                                       ![r].rejects = @ + 1,
                                       ![r].delay = RETRY_BASE_MS * attempt]
       /\ UNCHANGED pendingAutoPlayUrl

\* A mutant of retryPlay: every retry waits the base delay.
retryPlayFlatDelay(r, attempt) ==
  IF attempt > MAX_RETRY
  THEN /\ pendingAutoPlayUrl' = playReqs[r].url
       /\ playReqs' = [playReqs EXCEPT ![r].phase = "exhausted", ![r].rejects = @ + 1]
  ELSE /\ playReqs' = [playReqs EXCEPT ![r].phase = "timer", ![r].attempt = attempt,
                                       ![r].rejects = @ + 1,
                                       ![r].delay = RETRY_BASE_MS]
       /\ UNCHANGED pendingAutoPlayUrl

\* retryPlay(attempt) of request r, script.js:188-198, up to setTimeout: the
\* timer is set to 250 * attempt ms.
retryPlay(r, attempt) ==
  IF attempt > MAX_RETRY
  THEN /\ pendingAutoPlayUrl' = playReqs[r].url
       /\ playReqs' = [playReqs EXCEPT ![r].phase = "exhausted", ![r].rejects = @ + 1]
  ELSE /\ playReqs' = [playReqs EXCEPT ![r].phase = "timer", ![r].attempt = attempt,
                                       ![r].rejects = @ + 1,
                                       ![r].delay = RETRY_BASE_MS * attempt]
       /\ UNCHANGED pendingAutoPlayUrl

\* The page asks for a single-shot playback.
PlayRequest(url) ==
  /\ reqCount < MaxRequests
  /\ reqCount' = reqCount + 1
  /\ deferred' = IF audioUnlocked THEN deferred ELSE Append(deferred, url)
  /\ SetGate(playAgentAudio(GateState, url, FALSE))
  /\ UNCHANGED <<played, unlockCalls, murfVars, pageVars, micVars, nzVars>>

\* A user gesture calls unlockAudioIfNeeded.
Unlock(probeOk) ==
  /\ unlockCalls < MaxUnlocks
  /\ unlockCalls' = unlockCalls + 1
  /\ SetGate(unlockAudioIfNeeded(GateState, probeOk))
  /\ UNCHANGED <<played, reqCount, deferred, murfVars, pageVars, micVars, nzVars>>

\* The timer of script.js:147 stops the silent buffer and closes its context.
ProbeTimer(i) ==
  /\ probes[i] = "running"
  /\ probes' = [probes EXCEPT ![i] = "closed"]
  /\ UNCHANGED <<audioUnlocked, pendingAutoPlayUrl, agentAudio, playReqs, played,
                 reqCount, deferred, unlockCalls, murfVars, pageVars, micVars, nzVars>>

\* loadeddata fires for the current src: the handler of script.js:180-185
\* makes the first play attempt.
LoadedData ==
  /\ agentAudio.handler # 0
  /\ ~agentAudio.loaded
  /\ agentAudio' = [agentAudio EXCEPT !.loaded = TRUE]
  /\ playReqs' = [playReqs EXCEPT ![agentAudio.handler].phase = "play",
                                  ![agentAudio.handler].plays = @ + 1,
                                  ![agentAudio.handler].gen = agentAudio.gen]
  /\ UNCHANGED <<audioUnlocked, pendingAutoPlayUrl, probes, played, reqCount, deferred,
                 unlockCalls, murfVars, pageVars, micVars, nzVars>>

\* The promise of a play() call of request r is fulfilled: playback of the
\* element's src has started. A later load rejects the promise instead.
PlayFulfilled(r) ==
  /\ playReqs[r].phase = "play"
  /\ playReqs[r].gen = agentAudio.gen
  /\ playReqs' = [playReqs EXCEPT ![r].phase = "playing"]
  /\ played' = Append(played, agentAudio.src)
  /\ UNCHANGED <<audioUnlocked, pendingAutoPlayUrl, agentAudio, probes, reqCount, deferred,
                 unlockCalls, murfVars, pageVars, micVars, nzVars>>

\* The promise of a play() call of request r is rejected: retryPlay() after
\* the first attempt (script.js:181-184), retryPlay(attempt + 1) after a
\* retry (script.js:196).
PlayRejected(r) ==
  /\ playReqs[r].phase = "play"
  /\ retryPlay(r, playReqs[r].attempt + 1)
  /\ UNCHANGED <<audioUnlocked, agentAudio, probes, played, reqCount, deferred,
                 unlockCalls, murfVars, pageVars, micVars, nzVars>>

\* The timer of retryPlay fires: one more play() call, script.js:193-197.
RetryTimer(r) ==
  /\ playReqs[r].phase = "timer"
  /\ playReqs' = [playReqs EXCEPT ![r].phase = "play", ![r].plays = @ + 1,
                                  ![r].gen = agentAudio.gen]
  /\ UNCHANGED <<audioUnlocked, pendingAutoPlayUrl, agentAudio, probes, played,
                 reqCount, deferred, unlockCalls, murfVars, pageVars, micVars, nzVars>>


\* ----------------------------------------------------- streaming session
\* setMicState(active), script.js:358-379: the flag and the status text.
setMicState(active) ==
  /\ isMicRecording' = active
  /\ llmStatus' = IF active THEN Status("Listening") ELSE Status("")

\* ws.close(): a connecting or open socket starts closing.
CloseSocket(ss, w) ==
  IF w # 0 /\ ss[w].ws \in {"CONNECTING", "OPEN"}
  THEN [ss EXCEPT ![w].ws = "CLOSING"] ELSE ss

\* streamMedia.getTracks().forEach(t => t.stop()) on the stream of session k.
StopTracks(ss, k) ==
  IF k # 0 /\ ss[k].tracks = "live" THEN [ss EXCEPT ![k].tracks = "stopped"] ELSE ss

\* History: the stop branch of toggleMic ran for the session whose stream
\* streamMedia names.
MarkStopped(ss, k) ==
  IF k # 0 THEN [ss EXCEPT ![k].stoppedAt = ss[k].frames] ELSE ss

\* The session a toggleMic call starts, script.js:511-519: its socket, with
\* the logging onclose (0), its getUserMedia request, and its closure
\* variables liveRow, lastPartial, lastDisplayedFinal; as history, what the
\* utterance has heard, whether the socket has been open, the frames its
\* processor has sent, and how many of them when it was stopped (-1 before).
NewSession ==
  [ws |-> "CONNECTING", onclose |-> 0, gum |-> "pending", tracks |-> "none",
   graph |-> "none", liveRow |-> 0, lastPartial |-> <<>>, lastDisplayedFinal |-> <<>>,
   heard |-> NothingHeard, wasOpen |-> FALSE, frames |-> 0, stoppedAt |-> -1]

\* toggleMic, script.js:497-580, up to "await getUserMedia". keysOk is the
\* answer of requireKeysOrPrompt('mic'), probeOk as in unlockAudioIfNeeded.
toggleMic(keysOk, probeOk) ==
  IF ~keysOk
  THEN /\ settingsOpen' = TRUE
       /\ UNCHANGED <<llmStatus, chat, murfVars, micVars, gateVars, nzVars>>
  ELSE /\ SetGate(unlockAudioIfNeeded(GateState, probeOk))
       /\ unlockCalls' = IF unlockCalls < MaxUnlocks THEN unlockCalls + 1 ELSE unlockCalls
       /\ UNCHANGED <<played, reqCount, deferred, chat, settingsOpen, murfVars, turnEnds, lastEnd,
                      nzVars>>
       /\ IF streaming
          THEN \* the stop branch, script.js:500-509 (streamRecorder is never set)
               /\ sessions' = MarkStopped(
                                StopTracks(
                                  IF streamWS # 0 /\ sessions[streamWS].ws = "OPEN"
                                  THEN CloseSocket(sessions, streamWS) ELSE sessions,
                                  streamMedia),
                                streamMedia)
               /\ streaming' = FALSE
               /\ setMicState(FALSE)
               /\ UNCHANGED <<streamWS, streamMedia>>
          ELSE /\ Len(sessions) < MaxSessions
               /\ sessions' = Append(sessions, NewSession)
               /\ streamWS' = Len(sessions) + 1
               /\ UNCHANGED <<streamMedia, streaming, isMicRecording, llmStatus>>

\* getUserMedia of session s resolves: the rest of toggleMic's try block,
\* script.js:580-616. The cleanup onclose it installs (on the socket
\* streamWS names now) belongs to session s.
GumGranted(s) ==
  /\ sessions[s].gum = "pending"
  /\ sessions' = [k \in 1..Len(sessions) |->
                    LET a == IF k = s
                             THEN [sessions[k] EXCEPT !.gum = "granted", !.tracks = "live",
                                                      !.graph = "live"]
                             ELSE sessions[k]
                    IN  IF k = streamWS THEN [a EXCEPT !.onclose = s] ELSE a]
  /\ streamMedia' = s
  /\ streaming' = TRUE
  /\ isMicRecording' = TRUE
  /\ llmStatus' = Status("Streaming")
  /\ UNCHANGED <<streamWS, turnEnds, lastEnd, chat, settingsOpen, murfVars, gateVars,
                 nzVars>>

\* getUserMedia of session s rejects: the catch block, script.js:617-622.
GumDenied(s) ==
  /\ sessions[s].gum = "pending"
  /\ sessions' = StopTracks(
                   CloseSocket([sessions EXCEPT ![s].gum = "denied"], streamWS),
                   streamMedia)
  /\ llmStatus' = Status("Mic error: ")
  /\ UNCHANGED <<streamWS, streamMedia, streaming, isMicRecording, turnEnds, lastEnd,
                 chat, settingsOpen, murfVars, gateVars, nzVars>>

\* processor.onaudioprocess of session s, script.js:587-599, when it sends:
\* the frame goes to the socket streamWS names then, if that is open.
AudioProcess(s) ==
  /\ sessions[s].graph = "live"
  /\ streamWS # 0
  /\ sessions[streamWS].ws = "OPEN"
  /\ sessions[s].frames < MaxFrames
  /\ sessions' = [sessions EXCEPT ![s].frames = @ + 1]
  /\ UNCHANGED <<streamWS, streamMedia, streaming, isMicRecording, turnEnds, lastEnd,
                 pageVars, murfVars, gateVars, nzVars>>

\* The socket of session s opens, script.js:513.
WsOpen(s) ==
  /\ sessions[s].ws = "CONNECTING"
  /\ sessions' = [sessions EXCEPT ![s].ws = "OPEN", ![s].wasOpen = TRUE]
  /\ UNCHANGED <<streamWS, streamMedia, streaming, isMicRecording, turnEnds, lastEnd,
                 pageVars, murfVars, gateVars, nzVars>>

\* The socket of session s is closed (the close it asked for completes, the
\* server closes, or the connection fails): its onclose runs, the logging
\* one of script.js:514 or the cleanup of script.js:607-616, which releases
\* the graph of the session that installed it and stops the tracks of
\* whatever stream streamMedia names now.
WsClose(s) ==
  /\ sessions[s].ws \in {"CONNECTING", "OPEN", "CLOSING"}
  /\ LET k  == sessions[s].onclose
         s1 == [sessions EXCEPT ![s].ws = "CLOSED"]
     IN  IF k = 0
         THEN /\ sessions' = s1
              /\ UNCHANGED <<streaming, isMicRecording, llmStatus>>
         ELSE /\ sessions' = StopTracks([s1 EXCEPT ![k].graph = "closed"], streamMedia)
              /\ streaming' = FALSE
              /\ setMicState(FALSE)
  /\ UNCHANGED <<streamWS, streamMedia, turnEnds, lastEnd, chat, settingsOpen,
                 murfVars, gateVars, nzVars>>

\* ------------------------------------------------------- specifications
\* One message for the socket of some session.
Deliver(msgs) == \E s \in 1..Len(sessions) : \E raw \in msgs : OnMessage(s, raw)

\* The first session is started and is not stopped.
StartFirstSession == sessions = <<>> /\ toggleMic(TRUE, TRUE)

\* The streamed-TTS assembler: one session, its socket open, receives
\* tts_chunk and tts_done messages; decodes complete and sources end in any
\* order.
NextMurf ==
  \/ StartFirstSession
  \/ \E s \in 1..Len(sessions) : WsOpen(s)
  \/ Deliver(MurfMessages)
  \/ \E t \in 1..Len(murfTurns) : DecodeSuccess(t)
  \/ \E t \in 1..Len(murfTurns) : DecodeError(t)
  \/ \E i \in 1..Len(murfSources) : SourceEnded(i)

SpecMurf == Init /\ [][NextMurf]_vars

\* A session is started when the sockets of the sessions before it are
\* closed.
StartNextSession ==
  /\ \A s \in 1..Len(sessions) : sessions[s].ws = "CLOSED"
  /\ toggleMic(TRUE, TRUE)

\* The assembler under sessions that follow one another: a session is
\* started (its permission prompt stays unanswered), its socket opens,
\* delivers tts_chunk messages of one WAV fragment and tts_done, and
\* closes; then the next session is started.
NextMurfSessions ==
  \/ StartNextSession
  \/ \E s \in 1..Len(sessions) : WsOpen(s)
  \/ \E s \in 1..Len(sessions) : WsClose(s)
  \/ Deliver({TtsChunk(B64Encode(FragWav)), TtsDone})
  \/ \E t \in 1..Len(murfTurns) : DecodeSuccess(t)
  \/ \E t \in 1..Len(murfTurns) : DecodeError(t)
  \/ \E i \in 1..Len(murfSources) : SourceEnded(i)

SpecMurfSessions == Init /\ [][NextMurfSessions]_vars

\* The transcript reconciler: one session, its socket open, receives partial
\* transcripts, turn_end messages, a JSON object of another type and
\* malformed tts_chunk messages.
NextTranscript ==
  \/ StartFirstSession
  \/ \E s \in 1..Len(sessions) : WsOpen(s)
  \/ Deliver(TranscriptMessages)

SpecTranscript == Init /\ [][NextTranscript]_vars

\* The unlock gate and the single-shot playback path.
NextGate ==
  \/ \E url \in 0..NumUrls : PlayRequest(url)
  \/ \E probeOk \in BOOLEAN : Unlock(probeOk)
  \/ \E i \in 1..Len(probes) : ProbeTimer(i)
  \/ LoadedData
  \/ \E r \in 1..Len(playReqs) : PlayFulfilled(r)
  \/ \E r \in 1..Len(playReqs) : PlayRejected(r)
  \/ \E r \in 1..Len(playReqs) : RetryTimer(r)

SpecGate == Init /\ [][NextGate]_vars

\* The streaming session: toggleMic with its asynchronous continuations and
\* the socket's events.
NextMic ==
  \/ \E keysOk \in BOOLEAN, probeOk \in BOOLEAN : toggleMic(keysOk, probeOk)
  \/ \E s \in 1..Len(sessions) : GumGranted(s)
  \/ \E s \in 1..Len(sessions) : GumDenied(s)
  \/ \E s \in 1..Len(sessions) : WsOpen(s)
  \/ \E s \in 1..Len(sessions) : WsClose(s)
  \/ \E s \in 1..Len(sessions) : AudioProcess(s)

SpecMic == Init /\ [][NextMic]_vars

\* normalizeTranscript as a function: any text of up to MaxLen characters,
\* normalized, and the result normalized again.
TextAlphabet == {CH_a, CH_SPACE, CH_TAB, CH_ZWSP, CH_BOM}
Texts == UNION {[1..n -> TextAlphabet] : n \in 0..MaxLen}

Normalize ==
  /\ Len(nzOutput) < 2
  /\ nzOutput' = Append(nzOutput,
                        normalizeTranscript(IF nzOutput = <<>> THEN nzInput
                                            ELSE nzOutput[Len(nzOutput)]))
  /\ UNCHANGED <<nzInput, murfVars, pageVars, micVars, gateVars>>

InitNorm == InitPage /\ nzInput \in Texts
SpecNorm == InitNorm /\ [][Normalize]_vars


\* ------------------------------------------------- claims: the assembler
\* The buffers that are held: the outstanding decodes and the sources that
\* play, each with the fragments of its turn.
HeldBuffers ==
  {murfTurns[t] : t \in {u \in 1..Len(murfTurns) : murfTurns[u].state = "pending"}}
    \cup {[n |-> Len(murfSources[i].frags), frags |-> murfSources[i].frags,
           buf |-> murfSources[i].buf, ctx |-> murfSources[i].ctx, state |-> "playing"]
            : i \in {j \in 1..Len(murfSources) : murfSources[j].state = "playing"}}

\* What a turn's fragments are buffered as: a later fragment that starts
\* with RIFF and has at least 44 bytes loses its first 44 bytes.
ExpectedChunks(frags) ==
  [i \in 1..Len(frags) |->
     IF i > 1 /\ Len(frags[i]) >= WAV_HEADER_LEN /\ StartsWithRIFF(frags[i])
     THEN Subarray(frags[i], WAV_HEADER_LEN) ELSE frags[i]]

\* The playback sessions started for turn t.
PlaybacksOf(t) == {i \in 1..Len(murfSources) : murfSources[i].turn = t}

C2_ChunkAppends ==
  [][(turnFrags # <<>> /\ Len(turnFrags') = Len(turnFrags) + 1)
       => /\ murfPlaying /\ murfPlaying'
          /\ ~murfFirstChunk /\ ~murfFirstChunk'
          /\ Len(murfAudioChunks) = Len(turnFrags)
          /\ Len(murfAudioChunks') = Len(turnFrags')
          /\ SubSeq(murfAudioChunks', 1, Len(murfAudioChunks)) = murfAudioChunks]_vars

\* C2's case: a second fragment has been buffered behind the first.
C2_Witness == Len(turnFrags) = 2 /\ Len(murfAudioChunks) = 2

\* C3: the buffer of the accumulating turn is its first fragment unchanged,
\* followed by each later fragment, without its first 44 bytes when it
\* starts with RIFF and has at least 44 bytes, unchanged otherwise.
C3_HeaderStripped ==
  turnFrags # <<>> =>
    /\ murfAudioChunks = ExpectedChunks(turnFrags)
    /\ murfAudioChunks[1] = turnFrags[1]
    /\ \A i \in 2..Len(turnFrags) :
         LET f == turnFrags[i]
         IN  IF StartsWithRIFF(f) /\ Len(f) >= 44
             THEN Concat(SubSeq(murfAudioChunks, 1, i))
                    = Concat(SubSeq(murfAudioChunks, 1, i - 1)) \o SubSeq(f, 45, Len(f))
             ELSE murfAudioChunks[i] = f

\* C3's case: F1 and F2 both start with RIFF, F2 has more than 44 bytes, and
\* the buffer is F1 followed by the rest of F2.
C3_Witness ==
  /\ turnFrags = <<FragWav, FragWav>>
  /\ Concat(murfAudioChunks) = FragWav \o <<1, 2>>

\* The two size fields of a buffer are those of a 44-byte header before
\* Len(buf) - 44 bytes of data.
SizesRepaired(buf) ==
  /\ Len(buf) >= 44
  /\ GetUint32LE(buf, 4) = 36 + (Len(buf) - 44)
  /\ GetUint32LE(buf, 40) = Len(buf) - 44

\* C4 as claimed: whenever the first fragment of a turn begins with RIFF,
\* the buffer finalize produces (long enough to hold the fields) has the
\* size fields repaired.
C4_Original ==
  \A h \in HeldBuffers :
    (h.n >= 1 /\ StartsWithRIFF(h.frags[1]) /\ Len(h.buf) >= 44) => SizesRepaired(h.buf)

\* C4, amended: whenever the first fragment of a turn begins with RIFF and
\* has at least 44 bytes, the buffer finalize produces has the size fields
\* repaired.
C4_SizesRepaired ==
  \A h \in HeldBuffers :
    (h.n >= 1 /\ StartsWithRIFF(h.frags[1]) /\ Len(h.frags[1]) >= 44)
      => SizesRepaired(h.buf)

\* C4's case: a turn of a header fragment and raw audio is finalized, and the
\* data size written differs from the one the header arrived with.
C4_Witness ==
  \E h \in HeldBuffers :
    /\ h.frags = <<FragWav, FragPcm>>
    /\ GetUint32LE(h.buf, 40) = 42
    /\ GetUint32LE(h.frags[1], 40) = 0


\* C14: a tts_done that no tts_chunk came before, since the tts_done before
\* it or since the page was loaded, does nothing: it calls no decode, so
\* that no playback and no decode error can come of it.
C14_EmptyTurnIsNoop ==
  \A t \in 1..Len(murfTurns) :
    murfTurns[t].n = 0 => /\ murfTurns[t].state = "noop"
                          /\ PlaybacksOf(t) = {}

\* C20: a tts_done of a turn that has buffered a fragment calls the decode,
\* and the decode's success callback starts the playback: the turn is
\* neither skipped by the early return nor lost by a callback that throws.
C20_TurnNeverDropped ==
  \A t \in 1..Len(murfTurns) :
    murfTurns[t].n >= 1 => murfTurns[t].state \in {"pending", "decoded", "failed"}

\* C21: at most one playback source plays at a time, and no source has had
\* its context closed while it played.
C21_OneSourcePlaying ==
  /\ Cardinality({i \in 1..Len(murfSources) : murfSources[i].state = "playing"}) <= 1
  /\ \A i \in 1..Len(murfSources) : murfSources[i].state # "cut"
  /\ \A i \in 1..Len(murfSources) :
       murfSources[i].state = "playing" => audioCtxs[murfSources[i].ctx] = "running"

\* C23: the chunks buffered together all came from one session: what a
\* session left buffered when its turn was cut short is not in the buffer a
\* later session's fragments are added to, and the first of those is
\* buffered as a first fragment, unchanged.
C23_BufferOfOneTurn ==
  /\ \A i \in 1..Len(chunkSessions) : chunkSessions[i] = chunkSessions[1]
  /\ Len(chunkSessions) = Len(murfAudioChunks)
  /\ turnFrags # <<>> => murfAudioChunks[Len(murfAudioChunks) - Len(turnFrags) + 1]
                           = turnFrags[1]

\* ------------------------------------------------ transcript normalization
\* C5: normalizeTranscript is idempotent: normalizing the normalized form of
\* any text, zero-width characters and white space mixed, gives it back.
C5_NormalizeIdempotent ==
  Len(nzOutput) = 2 => nzOutput[2] = nzOutput[1]

\* ------------------------------------------------------ transcript rows
\* C6 as stated: after partial transcripts P1..Pn and a turn_end without a
\* transcript field, the utterance's user row shows normalizeTranscript(Pn).
C6_Original ==
  (lastEnd.s # 0 /\ lastEnd.transcript = Absent /\ lastEnd.last # Absent)
    => /\ lastEnd.row # 0
       /\ chat[lastEnd.row].text = normalizeTranscript(lastEnd.last)

\* C6: after partial transcripts P1..Pn and a turn_end without a transcript
\* field, the utterance's user row, final, shows normalizeTranscript(Pk) for
\* the last partial Pk that is not only white space, and the row exists
\* whenever that text is not empty.
C6_LastPartialShown ==
  (lastEnd.s # 0 /\ lastEnd.transcript = Absent /\ lastEnd.lastNonWs # Absent)
    => LET text == normalizeTranscript(lastEnd.lastNonWs)
       IN  /\ text # <<>> => lastEnd.row # 0
           /\ lastEnd.row # 0 => /\ chat[lastEnd.row].role = "user"
                                 /\ chat[lastEnd.row].text = text
                                 /\ chat[lastEnd.row].final

\* A partial, then one of white space only, then the turn_end: the row
\* shows the first.
C6_Witness ==
  /\ lastEnd.s # 0
  /\ lastEnd.transcript = Absent
  /\ lastEnd.lastNonWs = <<CH_SPACE, CH_a, CH_TAB, CH_SPACE, CH_b>>
  /\ lastEnd.last = <<CH_SPACE>>
  /\ lastEnd.row # 0
  /\ chat[lastEnd.row].text = <<CH_a, CH_SPACE, CH_b>>

\* The step is a turn_end with transcript and llm_response both non-empty,
\* handled while the session has no live row.
TurnEndWithBoth ==
  /\ turnEnds' # turnEnds
  /\ Truthy(lastEnd'.transcript)
  /\ Truthy(lastEnd'.llm)
  /\ ~lastEnd'.hadLiveRow

\* The live row and the last partial of the session are reset.
TurnStateReset ==
  /\ sessions'[lastEnd'.s].liveRow = 0
  /\ sessions'[lastEnd'.s].lastPartial = <<>>

\* C7 as stated: a turn_end with non-empty transcript T and llm_response R,
\* no live row existing, appends a final user row normalizeTranscript(T) and
\* then an agent row R, and resets the live row and the last partial.
C7_Original ==
  [][TurnEndWithBoth =>
       /\ chat' = chat \o
                   << [role |-> "user", text |-> normalizeTranscript(lastEnd'.transcript),
                       final |-> TRUE],
                      [role |-> "agent", text |-> lastEnd'.llm, final |-> FALSE] >>
       /\ TurnStateReset]_vars

\* C7: a turn_end with a transcript T whose normalized form is not empty and
\* a non-empty llm_response R, no live row existing, appends a final user
\* row normalizeTranscript(T) and then an agent row showing R trimmed, or
\* the placeholder when R is only white space, and resets the live row and
\* the last partial.
C7_TwoRowsAppended ==
  [][(TurnEndWithBoth /\ normalizeTranscript(lastEnd'.transcript) # <<>>) =>
       /\ chat' = chat \o
                   << [role |-> "user", text |-> normalizeTranscript(lastEnd'.transcript),
                       final |-> TRUE],
                      [role |-> "agent",
                       text |-> IF Trim(lastEnd'.llm) # <<>> THEN Trim(lastEnd'.llm)
                                ELSE Placeholder("agent"),
                       final |-> FALSE] >>
       /\ TurnStateReset]_vars

\* The turn_end of scenario C was handled on an empty chat.
C7_Witness ==
  /\ lastEnd.s # 0
  /\ lastEnd.transcript = <<CH_b, CH_SPACE, CH_SPACE, CH_a>>
  /\ lastEnd.llm = <<CH_SPACE, CH_b, CH_SPACE>>
  /\ ~lastEnd.hadLiveRow
  /\ Len(chat) = 2
  /\ chat[1] = [role |-> "user", text |-> <<CH_b, CH_SPACE, CH_a>>, final |-> TRUE]
  /\ chat[2] = [role |-> "agent", text |-> <<CH_b>>, final |-> FALSE]

\* C18: a message that is a JSON object is never applied as a partial
\* transcript: its text is shown in no chat row and in no status, and is no
\* session's last partial.
C18_JsonNeverPartial ==
  /\ \A i \in 1..Len(chat) : chat[i].text # normalizeTranscript(JsonText)
  /\ \A s \in 1..Len(sessions) : sessions[s].lastPartial # normalizeTranscript(JsonText)
  /\ llmStatus.text # normalizeTranscript(JsonText)

\* C19: a row a turn_end has marked final is changed by no later message,
\* and the first partial with text that a session receives after its
\* turn_end, having no live row, is shown in a new row, which becomes the
\* live one.
C19_TurnEndAuthoritative ==
  [][/\ \A i \in 1..Len(chat) : chat[i].final => chat'[i] = chat[i]
     /\ \A s \in 1..Len(sessions) :
          (/\ lastEnd.s = s
           /\ turnEnds' = turnEnds
           /\ sessions[s].liveRow = 0
           /\ sessions'[s].heard # sessions[s].heard
           /\ ~sessions'[s].heard.foreign
           /\ normalizeTranscript(sessions'[s].heard.last) # <<>>)
            => /\ Len(chat') = Len(chat) + 1
               /\ sessions'[s].liveRow = Len(chat')
               /\ chat'[Len(chat')] =
                    [role |-> "user",
                     text |-> normalizeTranscript(sessions'[s].heard.last),
                     final |-> FALSE]]_vars

\* A turn_end finalized a row, and a later partial is shown in a new live
\* row below it.
C19_Witness ==
  /\ lastEnd.s # 0
  /\ lastEnd.row # 0
  /\ chat[lastEnd.row].final
  /\ sessions[lastEnd.s].liveRow > lastEnd.row
  /\ sessions[lastEnd.s].heard.last = <<CH_a>>
  /\ chat[sessions[lastEnd.s].liveRow].text = <<CH_a>>

C10_Original ==
  \A r \in 1..Len(playReqs) :
    playReqs[r].rejects >= MAX_RETRY
      => /\ playReqs[r].plays = MAX_RETRY
         /\ playReqs[r].phase = "exhausted"

\* C10: a request makes at most 4 play attempts, the first and 3 retries;
\* it gives up exactly when the 4th is rejected, and that step stores its URL
\* as the pending one.
C10_FourAttempts ==
  /\ [](\A r \in 1..Len(playReqs) :
          /\ playReqs[r].plays <= MAX_RETRY + 1
          /\ playReqs[r].rejects <= playReqs[r].plays
          /\ playReqs[r].phase = "exhausted" <=> playReqs[r].rejects = MAX_RETRY + 1)
  /\ [][\A r \in 1..Len(playReqs) :
          (playReqs[r].rejects = MAX_RETRY /\ playReqs'[r].rejects = MAX_RETRY + 1)
            => /\ playReqs'[r].plays = MAX_RETRY + 1
               /\ pendingAutoPlayUrl' = playReqs[r].url]_vars

\* A request gave up after its 4th rejection and its URL is pending.
C10_Witness ==
  \E r \in 1..Len(playReqs) :
    /\ playReqs[r].rejects = MAX_RETRY + 1
    /\ playReqs[r].phase = "exhausted"
    /\ pendingAutoPlayUrl = playReqs[r].url

\* C11: a request makes its first play attempt and at most 3 retries; the
\* k-th retry is set k times 250 ms after the rejection before it; a request
\* whose attempt succeeded makes no other attempt and stores nothing; the
\* pending URL is written, the page's own deferred requests apart, only by
\* the rejection of the 3rd retry.
C11_RetrySchedule ==
  /\ [](\A r \in 1..Len(playReqs) :
          /\ playReqs[r].plays <= 1 + MAX_RETRY
          /\ playReqs[r].phase = "timer"
               => /\ playReqs[r].rejects \in 1..MAX_RETRY
                  /\ playReqs[r].plays = playReqs[r].rejects
                  /\ playReqs[r].delay = playReqs[r].rejects * RETRY_BASE_MS)
  /\ [][/\ \A r \in 1..Len(playReqs) :
            playReqs[r].phase = "playing" => playReqs'[r] = playReqs[r]
        /\ (pendingAutoPlayUrl' # pendingAutoPlayUrl /\ pendingAutoPlayUrl' # 0
              /\ reqCount' = reqCount)
             => \E r \in 1..Len(playReqs) :
                  /\ playReqs[r].phase = "play"
                  /\ playReqs[r].plays = 1 + MAX_RETRY
                  /\ playReqs[r].rejects = MAX_RETRY
                  /\ playReqs'[r].phase = "exhausted"
                  /\ pendingAutoPlayUrl' = playReqs[r].url]_vars

\* A request succeeded on its 2nd retry, and another timer ran for the 3rd.
C11_Witness ==
  /\ \E r \in 1..Len(playReqs) :
       playReqs[r].phase = "playing" /\ playReqs[r].rejects = 2 /\ playReqs[r].plays = 3
  /\ \E r \in 1..Len(playReqs) :
       playReqs[r].phase = "timer" /\ playReqs[r].delay = 3 * RETRY_BASE_MS

\* C12: when a request has given up and its URL is the pending one, the
\* next call of unlockAudioIfNeeded starts a playback request for that URL
\* and empties the pending slot.
C12_UnlockRetriesPending ==
  [][(/\ unlockCalls' # unlockCalls
      /\ pendingAutoPlayUrl # 0
      /\ \E r \in 1..Len(playReqs) :
           playReqs[r].phase = "exhausted" /\ playReqs[r].url = pendingAutoPlayUrl)
       => /\ pendingAutoPlayUrl' = 0
          /\ Len(playReqs') = Len(playReqs) + 1
          /\ playReqs'[Len(playReqs')].url = pendingAutoPlayUrl]_vars

\* The last URL deferred while the gate was locked, 0 if there is none (a
\* call with the empty URL defers nothing).
RECURSIVE LastDeferred(_)
LastDeferred(urls) ==
  IF urls = <<>> THEN 0
  ELSE IF urls[Len(urls)] # 0 THEN urls[Len(urls)]
  ELSE LastDeferred(SubSeq(urls, 1, Len(urls) - 1))

\* C13: requests made while the gate is locked start no playback and leave
\* the last of their URLs in the pending slot; the first unlock starts one
\* playback request, for that URL; every other playback request is one the
\* page made after the unlock, and nothing is played but the URL of a
\* playback request.
C13_LastDeferredFlushed ==
  /\ ~audioUnlocked
       => /\ playReqs = <<>> /\ played = <<>> /\ agentAudio.src = 0
          /\ reqCount = Len(deferred)
          /\ pendingAutoPlayUrl = LastDeferred(deferred)
  /\ audioUnlocked
       => /\ Len(playReqs) <= (reqCount - Len(deferred))
                                + (IF LastDeferred(deferred) # 0 THEN 1 ELSE 0)
          /\ LastDeferred(deferred) # 0
               => /\ Len(playReqs) >= 1
                  /\ playReqs[1].url = LastDeferred(deferred)
  /\ \A i \in 1..Len(played) :
       \E r \in 1..Len(playReqs) : playReqs[r].url = played[i]

\* Two URLs were deferred, the gate was unlocked, and the second was played.
C13_Witness ==
  /\ audioUnlocked
  /\ deferred = <<1, 2>>
  /\ Len(playReqs) = 1
  /\ played = <<2>>

\* C24: once a newer playback request has been started, an older request
\* makes no play attempt any more and does not store its URL as the pending
\* one.
C24_OlderRequestSuperseded ==
  [][\A r \in 1..(Len(playReqs) - 1) :
       /\ playReqs'[r].plays = playReqs[r].plays
       /\ playReqs[r].phase # "exhausted" => playReqs'[r].phase # "exhausted"]_vars

\* ----------------------------------------------------- denied microphone
\* C9: a session whose microphone permission was denied has never had its
\* socket open and holds no socket, track or processing graph.
C9_DeniedOpensNothing ==
  \A s \in 1..Len(sessions) :
    sessions[s].gum = "denied"
      => /\ ~sessions[s].wasOpen
         /\ sessions[s].ws \notin {"CONNECTING", "OPEN"}
         /\ sessions[s].tracks # "live"
         /\ sessions[s].graph # "live"

\* ------------------------------------------------- session and its socket
\* C15: a session whose socket is closed holds no live track and no live
\* processing graph, and while its socket is the current one the streaming
\* flag is false, whenever the close came.
C15_ClosedReleases ==
  \A s \in 1..Len(sessions) :
    sessions[s].ws = "CLOSED"
      => /\ sessions[s].tracks # "live"
         /\ sessions[s].graph # "live"
         /\ streamWS = s => ~streaming

\* C16: once the stop branch of toggleMic has run for a session, its tracks
\* are stopped, its graph is disconnected, its socket is neither connecting
\* nor open, and its processor sends no frame any more.
C16_StopReleasesAll ==
  \A s \in 1..Len(sessions) :
    sessions[s].stoppedAt # -1
      => /\ sessions[s].tracks # "live"
         /\ sessions[s].graph # "live"
         /\ sessions[s].ws \notin {"CONNECTING", "OPEN"}
         /\ sessions[s].frames = sessions[s].stoppedAt

\* C17: at most one socket is connecting or open and at most one capture
\* graph is live, at every moment.
C17_OneSessionAtATime ==
  /\ Cardinality({s \in 1..Len(sessions) : sessions[s].ws \in {"CONNECTING", "OPEN"}}) <= 1
  /\ Cardinality({s \in 1..Len(sessions) : sessions[s].graph = "live"}) <= 1

\* C22: when the socket of an earlier session closes while a later session
\* is streaming with live tracks, the later session's tracks stay live, the
\* streaming flag stays true and the mic stays shown as recording.
C22_CloseAffectsOwnSession ==
  [][\A s \in 1..Len(sessions) : \A t \in 1..Len(sessions) :
       (/\ s < t
        /\ sessions[s].ws # "CLOSED" /\ sessions'[s].ws = "CLOSED"
        /\ streaming /\ isMicRecording
        /\ streamMedia = t /\ sessions[t].tracks = "live")
         => /\ sessions'[t].tracks = "live"
            /\ streaming'
            /\ isMicRecording']_vars

====
